---- MODULE Spec2Model ----
(***************************************************************************)
(* Triangular peg solitaire (peg-game.py): Board geometry and move         *)
(* generation, Move validity, the recursive backtracking worker, the       *)
(* thread-pool fan-out of Solver.solve and the Game driver.                *)
(*                                                                         *)
(* A Board object is a record [num_rows, num_holes, state]; state is the   *)
(* Python list, a function over 0..num_holes-1.  A Move is a record        *)
(* [start, jumped, destination].  Board objects live in a heap (boards):   *)
(* boards[GameBoard] is Game.board, the board handed to the Solver, and    *)
(* every Board(...) executed by solve appends a new object.                *)
(***************************************************************************)
EXTENDS Integers, Sequences, FiniteSets, TLC

\* ------------------------------------------------------------------ bounds
\* Largest board of the Board-API specification and of the stepwise solver.
MaxRows == 3
\* Largest board and largest peg count of the boards handed to the solver
\* in the task-level solver specification.
SolveRows == 4
MaxPegs == 4
\* Most pegs on a board whose workers are interleaved freely with solve.
JoinPegs == 3

\* ----------------------------------------------------- program constants
\* float('inf'), the initial best_pegs (above every peg count of the model).
Inf == 1000000
\* Game.__init__ defaults.
DefaultRows == 5
DefaultEmptyHole == 0

\* Python's None, as returned by get_row_col.
None == <<>>

\* ------------------------------------------------------------------- Move
Move(start, jumped, destination) ==
    [start |-> start, jumped |-> jumped, destination |-> destination]

\* len(board.state)
StateLen(state) == Cardinality(DOMAIN state)

is_valid_nojumped(move, board) ==
    LET len == StateLen(board.state)
    IN  /\ 0 <= move.start /\ move.start < len
        /\ 0 <= move.jumped /\ move.jumped < len
        /\ 0 <= move.destination /\ move.destination < len
        /\ board.state[move.start]
        /\ ~board.state[move.destination]

is_valid_nodest(move, board) ==
    LET len == StateLen(board.state)
    IN  /\ 0 <= move.start /\ move.start < len
        /\ 0 <= move.jumped /\ move.jumped < len
        /\ 0 <= move.destination /\ move.destination < len
        /\ board.state[move.start]
        /\ board.state[move.jumped]

is_valid(move, board) ==
    LET len == StateLen(board.state)
    IN  /\ 0 <= move.start /\ move.start < len
        /\ 0 <= move.jumped /\ move.jumped < len
        /\ 0 <= move.destination /\ move.destination < len
        /\ board.state[move.start]
        /\ board.state[move.jumped]
        /\ ~board.state[move.destination]

\* ------------------------------------------------------------------ Board
num_holes_extrarow(num_rows) == ((num_rows + 1) * (num_rows + 2)) \div 2

num_holes_of(num_rows) == (num_rows * (num_rows + 1)) \div 2

\* The IndexError a list store raises for an index outside the list.
IndexError == [raises |-> "IndexError"]

\* Board.__init__.  `self.state[empty_hole] = False` is a list store: an
\* index in -num_holes..-1 counts from the end of the list, and an index
\* outside -num_holes..num_holes-1 raises IndexError (so does any index
\* when the list is empty).
Board(num_rows, empty_hole) ==
    LET n == num_holes_of(num_rows)
    IN  IF empty_hole < -n \/ empty_hole >= n
        THEN IndexError
        ELSE LET hole == IF empty_hole < 0 THEN empty_hole + n ELSE empty_hole
             IN  [num_rows  |-> num_rows,
                  num_holes |-> n,
                  state     |-> [i \in 0..(n - 1) |-> i # hole]]

\* The while loop of get_row_col: the first row whose successor row starts
\* after index.
RECURSIVE row_of(_, _)
row_of(index, row) ==
    IF index >= ((row + 1) * (row + 2)) \div 2
    THEN row_of(index, row + 1)
    ELSE row

get_row_col(board, index) ==
    IF index < 0 \/ index >= board.num_holes
    THEN None
    ELSE LET row == row_of(index, 0)
             start_of_row == (row * (row + 1)) \div 2
         IN  <<row, index - start_of_row>>

get_index_colbound(board, row, col) ==
    IF row < 0 \/ row >= board.num_rows \/ col < 0 \/ col >= row
    THEN -1
    ELSE (row * (row + 1)) \div 2 + col

get_index(board, row, col) ==
    IF row < 0 \/ row >= board.num_rows \/ col < 0 \/ col > row
    THEN -1
    ELSE (row * (row + 1)) \div 2 + col

directions_swapped ==
    << <<-2, -2>>, <<-2, 0>>, <<0, -2>>, <<0, 2>>, <<2, 2>>, <<2, 0>> >>

directions ==
    << <<-2, -2>>, <<-2, 0>>, <<0, -2>>, <<0, 2>>, <<2, 0>>, <<2, 2>> >>

\* The body of the inner loop of get_valid_moves for one direction: the
\* moves it appends (none or one).
direction_moves(board, start, start_row, start_col, dir) ==
    LET dr         == dir[1]
        dc         == dir[2]
        jumped_row == start_row + dr \div 2
        jumped_col == start_col + dc \div 2
        jumped     == get_index(board, jumped_row, jumped_col)
        dest_row   == start_row + dr
        dest_col   == start_col + dc
        dest       == get_index(board, dest_row, dest_col)
    IN  IF jumped # -1 /\ dest # -1 /\ board.state[jumped] /\ ~board.state[dest]
        THEN << Move(start, jumped, dest) >>
        ELSE << >>

\* for dr, dc in directions, from the d-th direction on
RECURSIVE moves_from_dir(_, _, _, _, _)
moves_from_dir(board, start, start_row, start_col, d) ==
    IF d > Len(directions)
    THEN << >>
    ELSE direction_moves(board, start, start_row, start_col, directions[d])
           \o moves_from_dir(board, start, start_row, start_col, d + 1)

\* for start in range(self.num_holes), from hole start on
RECURSIVE moves_from_start(_, _)
moves_from_start(board, start) ==
    IF start >= board.num_holes
    THEN << >>
    ELSE (IF ~board.state[start]
          THEN << >>
          ELSE LET rc == get_row_col(board, start)
               IN  moves_from_dir(board, start, rc[1], rc[2], 1))
           \o moves_from_start(board, start + 1)

get_valid_moves(board) == moves_from_start(board, 0)

\* The result of apply_move: the board after the call and the returned bool.
apply_move(board, move) ==
    IF is_valid(move, board)
    THEN [board |-> [board EXCEPT
                       !.state = [[[board.state EXCEPT ![move.start] = FALSE]
                                                EXCEPT ![move.jumped] = FALSE]
                                                EXCEPT ![move.destination] = TRUE]],
          ret   |-> TRUE]
    ELSE [board |-> board, ret |-> FALSE]

is_game_over(board) == get_valid_moves(board) = << >>

pegs_remaining(board) == Cardinality({i \in DOMAIN board.state : board.state[i]})

\* ----------------------------------------------------------------- Solver
\* A search result is the pair <<pegs_left, move_sequence>>.

\* _solve_worker, the update of the best result after a recursive call:
\*     if pegs_left < best_pegs_found_in_path: ... elif == : shorter wins
worker_update_last(best, pegs_left, resulting_moves) ==
    <<pegs_left, resulting_moves>>

worker_update_keepmoves(best, pegs_left, resulting_moves) ==
    IF pegs_left < best[1]
    THEN <<pegs_left, best[2]>>
    ELSE IF pegs_left = best[1] /\ Len(resulting_moves) < Len(best[2])
         THEN <<best[1], resulting_moves>>
         ELSE best

worker_update_lastwins(best, pegs_left, resulting_moves) ==
    IF pegs_left <= best[1] THEN <<pegs_left, resulting_moves>> ELSE best

worker_update(best, pegs_left, resulting_moves) ==
    IF pegs_left < best[1]
    THEN <<pegs_left, resulting_moves>>
    ELSE IF pegs_left = best[1] /\ Len(resulting_moves) < Len(best[2])
         THEN <<best[1], resulting_moves>>
         ELSE best

\* solve, the reduction of one worker result into best_pegs, best_moves.
solve_update_last(best, pegs_left, move_sequence) ==
    <<pegs_left, move_sequence>>

solve_update_first(best, pegs_left, move_sequence) ==
    IF best[1] = Inf THEN <<pegs_left, move_sequence>> ELSE best

solve_update(best, pegs_left, move_sequence) ==
    IF pegs_left < best[1]
    THEN <<pegs_left, move_sequence>>
    ELSE IF pegs_left = best[1] /\ Len(move_sequence) < Len(best[2])
         THEN <<best[1], move_sequence>>
         ELSE best

\* _solve_worker(board, current_move_sequence, ...) run to its return: the
\* returned pair and the board as the call leaves it.
RECURSIVE solve_worker(_, _)
RECURSIVE worker_loop(_, _, _, _, _)

\* The for loop of _solve_worker from the i-th move on, with the best result
\* so far.  (The singleton sets bind the result of the recursive call, the
\* restored board and the updated best result as values.)
worker_loop(board, current_move_sequence, loop_moves, i, best) ==
    IF i > Len(loop_moves)
    THEN [ret |-> best, board |-> board]
    ELSE LET move                 == loop_moves[i]
             original_board_state == board.state
         IN  CHOOSE out \in
               { worker_loop(restored, current_move_sequence, loop_moves,
                             i + 1, updated) :
                   <<restored, updated>> \in
                     { << [sub.board EXCEPT !.state = original_board_state],
                          worker_update(best, sub.ret[1], sub.ret[2]) >> :
                         sub \in { solve_worker(apply_move(board, move).board,
                                                current_move_sequence \o << move >>) } } }
               : TRUE

\* `if board.is_game_over()` and, after it, `moves = board.get_valid_moves()`
\* with `if not moves` read the same unchanged board: both tests are
\* loop_moves = << >>.
solve_worker(board, current_move_sequence) ==
    LET loop_moves == get_valid_moves(board)
    IN  IF loop_moves = << >>
        THEN [ret |-> <<pegs_remaining(board), current_move_sequence>>,
              board |-> board]
        ELSE worker_loop(board, current_move_sequence, loop_moves, 1,
                         <<Inf, current_move_sequence>>)

\* ------------------------------------------------------------------ state
VARIABLES
    boards,         \* heap of Board objects; boards[GameBoard] is Game.board
    phase,          \* position of the main thread
    call,           \* the Board method call in progress (Board-API spec)
    moves,          \* Game.play: the local moves (interactive loop, replay)
    initial_moves,  \* Solver.solve: the local initial_moves
    futures,        \* Solver.solve: the submitted worker tasks, in order
    best_pegs,      \* Solver.best_pegs
    best_moves,     \* Solver.best_moves
    result,         \* the pair returned by Solver.solve
    seq_result,     \* the pair returned by a direct _solve_worker call
    saved_state,    \* Game.play: the local saved_state
    cursor,         \* Game.play: position of the replay loop in moves
    entry_board     \* the board handed to the Solver, as it was at the call

vars == <<boards, phase, call, moves, initial_moves, futures, best_pegs,
          best_moves, result, seq_result, saved_state, cursor, entry_board>>

GameBoard == 1

NoCall == [op |-> "none", arg |-> << >>, before |-> << >>, ret |-> << >>,
           first |-> << >>]

\* Solver.__init__ and the locals of solve and play before they are bound.
SolverIdle ==
    /\ moves = << >>
    /\ initial_moves = << >>
    /\ futures = << >>
    /\ best_pegs = Inf
    /\ best_moves = << >>
    /\ result = None
    /\ seq_result = None
    /\ saved_state = None
    /\ cursor = 0
    /\ entry_board = None

SolverUnchanged ==
    UNCHANGED <<moves, initial_moves, futures, best_pegs, best_moves, result,
                seq_result, saved_state, cursor, entry_board>>

\* ======================================================================
\* Game: construction and the interactive loop of Game.play.
\* ======================================================================

\* Game(num_rows, empty_hole) at the call of play(auto_solve).
GameInit(num_rows, empty_hole, auto_solve) ==
    /\ Board(num_rows, empty_hole) # IndexError
    /\ boards = << Board(num_rows, empty_hole) >>
    /\ phase = IF auto_solve THEN "solve" ELSE "play"
    /\ call = NoCall
    /\ SolverIdle

\* One evaluation of the loop condition `while not self.board.is_game_over()`
\* and, in the loop body, of `moves = self.board.get_valid_moves()`.
PlayPrompt ==
    /\ phase = "play"
    /\ IF is_game_over(boards[GameBoard])
       THEN /\ phase' = "over"
            /\ UNCHANGED moves
       ELSE /\ moves' = get_valid_moves(boards[GameBoard])
            /\ phase' = IF moves' = << >> THEN "over" ELSE "choose"
    /\ UNCHANGED <<boards, call, initial_moves, futures, best_pegs, best_moves,
                   result, seq_result, saved_state, cursor, entry_board>>

\* The user enters a number; choice is that number minus one: every listed
\* move, and one number on either side of the list.
PlayChoose ==
    /\ phase = "choose"
    /\ \E choice \in -1..Len(moves) :
         IF 0 <= choice /\ choice < Len(moves)
         THEN boards' = [boards EXCEPT
                           ![GameBoard] = apply_move(@, moves[choice + 1]).board]
         ELSE UNCHANGED boards
    /\ phase' = "play"
    /\ UNCHANGED <<call, moves, initial_moves, futures, best_pegs, best_moves,
                   result, seq_result, saved_state, cursor, entry_board>>

InitGame == GameInit(DefaultRows, DefaultEmptyHole, FALSE)

NextGame ==
    \/ PlayPrompt
    \/ PlayChoose

\* The default game, played interactively.
SpecGame == InitGame /\ [][NextGame]_vars

\* ======================================================================
\* Board API: a caller holding a Board in any state calls one of its
\* methods with arbitrary arguments.
\* ======================================================================

\* Hole indices a caller may pass: every index of the board, and one on
\* either side of the range.
IndexArgs(board) == -1..board.num_holes

MoveArgs(board) ==
    {Move(s, j, d) : s \in IndexArgs(board), j \in IndexArgs(board),
                     d \in IndexArgs(board)}

\* (row, col) arguments: the triangle and a margin of one around it.
CoordArgs(board) == (-1..board.num_rows) \X (-1..board.num_rows)

\* A Board whose state list has been overwritten, as solve does with
\* next_board = Board(num_rows, 0); next_board.state = <a list>.
BoardWithState(num_rows, state) == [Board(num_rows, 0) EXCEPT !.state = state]

BoardStates(num_rows) == [0..(num_holes_of(num_rows) - 1) -> BOOLEAN]

InitBoard ==
    /\ \E n \in 1..MaxRows :
         \E st \in BoardStates(n) : boards = << BoardWithState(n, st) >>
    /\ phase = "api"
    /\ call = NoCall
    /\ SolverIdle

\* board.apply_move(m), for any triple m
BoardApplyMove ==
    /\ phase = "api"
    /\ \E m \in MoveArgs(boards[GameBoard]) :
         LET r == apply_move(boards[GameBoard], m)
         IN  /\ boards' = [boards EXCEPT ![GameBoard] = r.board]
             /\ call' = [op |-> "apply_move", arg |-> m,
                         before |-> boards[GameBoard], ret |-> r.ret,
                         first |-> << >>]
    /\ phase' = "called"
    /\ SolverUnchanged

\* After a successful board.apply_move(m), the caller applies the inverse
\* move (destination, jumped, start).
BoardApplyInverse ==
    /\ phase = "called" /\ call.op = "apply_move" /\ call.ret = TRUE
    /\ LET inv == Move(call.arg.destination, call.arg.jumped, call.arg.start)
           r   == apply_move(boards[GameBoard], inv)
       IN  /\ boards' = [boards EXCEPT ![GameBoard] = r.board]
           /\ call' = [op |-> "apply_inverse", arg |-> inv,
                       before |-> boards[GameBoard], ret |-> r.ret,
                       first |-> call]
    /\ phase' = "inverted"
    /\ SolverUnchanged

\* board.get_valid_moves()
BoardGetValidMoves ==
    /\ phase = "api"
    /\ call' = [op |-> "get_valid_moves", arg |-> << >>,
                before |-> boards[GameBoard],
                ret |-> get_valid_moves(boards[GameBoard]), first |-> << >>]
    /\ phase' = "called"
    /\ UNCHANGED boards
    /\ SolverUnchanged

\* board.get_row_col(i), for any index i in the range or up to two off it
BoardGetRowCol ==
    /\ phase = "api"
    /\ \E i \in -2..(boards[GameBoard].num_holes + 1) :
         call' = [op |-> "get_row_col", arg |-> i,
                  before |-> boards[GameBoard],
                  ret |-> get_row_col(boards[GameBoard], i), first |-> << >>]
    /\ phase' = "called"
    /\ UNCHANGED boards
    /\ SolverUnchanged

\* board.get_index(row, col)
BoardGetIndex ==
    /\ phase = "api"
    /\ \E rc \in CoordArgs(boards[GameBoard]) :
         call' = [op |-> "get_index", arg |-> rc,
                  before |-> boards[GameBoard],
                  ret |-> get_index(boards[GameBoard], rc[1], rc[2]),
                  first |-> << >>]
    /\ phase' = "called"
    /\ UNCHANGED boards
    /\ SolverUnchanged

NextBoard ==
    \/ BoardApplyMove
    \/ BoardApplyInverse
    \/ BoardGetValidMoves
    \/ BoardGetRowCol
    \/ BoardGetIndex

SpecBoard == InitBoard /\ [][NextBoard]_vars

\* ======================================================================
\* Solver.solve as called by Game.play(auto_solve=True): the main thread
\* (solve, then the replay of play) and the worker tasks of the pool.
\* ======================================================================

\* A frame of _solve_worker on a worker's call stack.  pc is "entry" (at the
\* first line), "loop" (at the head of the for loop, about to take move i)
\* or "call" (inside the recursive call of move i).
EntryFrame(current_move_sequence) ==
    [pc                   |-> "entry",
     current_move_sequence |-> current_move_sequence,
     loop_moves           |-> << >>,
     i                    |-> 0,
     original_board_state |-> None,
     best                 |-> None]

NewTask_emptyseq(board_id, move) ==
    [board  |-> board_id,
     stack  |-> << EntryFrame(<< >>) >>,
     status |-> "pending",
     ret    |-> None,
     taken  |-> FALSE]

\* executor.submit(self._solve_worker, next_board, [move], display, delay)
NewTask(board_id, move) ==
    [board  |-> board_id,
     stack  |-> << EntryFrame(<< move >>) >>,
     status |-> "pending",
     ret    |-> None,
     taken  |-> FALSE]

\* solve, `if not initial_moves:` -- the pair returned for a board that has
\* no valid move.
early_result_inf(board) == <<Inf, << >> >>

early_result(board) == <<pegs_remaining(board), << >> >>

\* The Board object solve hands to a worker: Board(...) makes a new object.
next_board_alias(heap) == GameBoard

next_board_shared(heap) == GameBoard + 1

next_board_id(heap) == Len(heap) + 1

\* solver = Solver(self.board); solver.solve(display=False), up to the
\* return of the no-move case or the start of the submit loop.
SolveCall ==
    /\ phase = "solve"
    /\ entry_board' = boards[GameBoard]
    /\ initial_moves' = get_valid_moves(boards[GameBoard])
    /\ IF initial_moves' = << >>
       THEN /\ best_pegs' = early_result(boards[GameBoard])[1]
            /\ best_moves' = early_result(boards[GameBoard])[2]
            /\ result' = <<best_pegs', best_moves'>>
            /\ phase' = "returned"
       ELSE /\ best_pegs' = Inf
            /\ best_moves' = << >>
            /\ UNCHANGED result
            /\ phase' = "dispatch"
    /\ UNCHANGED <<boards, call, moves, futures, seq_result, saved_state, cursor>>

\* One iteration of `for move in initial_moves`: copy the board, apply the
\* move to the copy, submit the task.
Dispatch ==
    /\ phase = "dispatch"
    /\ LET move   == initial_moves[Len(futures) + 1]
           id     == next_board_id(boards)
           copy   == BoardWithState(boards[GameBoard].num_rows,
                                    boards[GameBoard].state)
           heap   == IF id > Len(boards) THEN Append(boards, copy) ELSE boards
       IN  /\ boards' = [heap EXCEPT ![id] = apply_move(heap[id], move).board]
           /\ futures' = Append(futures, NewTask(id, move))
    /\ phase' = IF Len(futures') = Len(initial_moves) THEN "collect" ELSE "dispatch"
    /\ UNCHANGED <<call, moves, initial_moves, best_pegs, best_moves, result,
                   seq_result, saved_state, cursor, entry_board>>

worker_return_noadvance(task, board, r) ==
    LET n == Len(task.stack)
    IN  IF n = 1
        THEN [task  |-> [task EXCEPT !.stack = << >>, !.status = "done", !.ret = r],
              board |-> board]
        ELSE LET caller == task.stack[n - 1]
             IN  [task  |-> [task EXCEPT !.stack =
                               Append(SubSeq(task.stack, 1, n - 2),
                                      [caller EXCEPT
                                         !.pc = "loop",
                                         !.best = worker_update(@, r[1], r[2])])],
                  board |-> [board EXCEPT !.state = caller.original_board_state]]

worker_return_norestore(task, board, r) ==
    LET n == Len(task.stack)
    IN  IF n = 1
        THEN [task  |-> [task EXCEPT !.stack = << >>, !.status = "done", !.ret = r],
              board |-> board]
        ELSE LET caller == task.stack[n - 1]
             IN  [task  |-> [task EXCEPT !.stack =
                               Append(SubSeq(task.stack, 1, n - 2),
                                      [caller EXCEPT
                                         !.pc = "loop",
                                         !.i = @ + 1,
                                         !.best = worker_update(@, r[1], r[2])])],
                  board |-> board]

\* A frame returns r: the worker's task and board after the return statement
\* and, in the calling frame, the restore of the snapshot and the update of
\* the best result (or the completion of the task, from the outermost frame).
worker_return(task, board, r) ==
    LET n == Len(task.stack)
    IN  IF n = 1
        THEN [task  |-> [task EXCEPT !.stack = << >>, !.status = "done", !.ret = r],
              board |-> board]
        ELSE LET caller == task.stack[n - 1]
             IN  [task  |-> [task EXCEPT !.stack =
                               Append(SubSeq(task.stack, 1, n - 2),
                                      [caller EXCEPT
                                         !.pc = "loop",
                                         !.i = @ + 1,
                                         !.best = worker_update(@, r[1], r[2])])],
                  board |-> [board EXCEPT !.state = caller.original_board_state]]

TopFrame(task) == task.stack[Len(task.stack)]

TaskAt(w, pc) ==
    /\ futures[w].status = "pending"
    /\ TopFrame(futures[w]).pc = pc

WorkerUnchanged ==
    UNCHANGED <<phase, call, moves, initial_moves, best_pegs, best_moves, result,
                seq_result, saved_state, cursor, entry_board>>

\* A worker enters _solve_worker: the game-over test and, when the game goes
\* on, the move list and the initial best result of the frame.
WorkerEnter(w) ==
    /\ TaskAt(w, "entry")
    /\ LET task  == futures[w]
           board == boards[task.board]
           top   == TopFrame(task)
       IN  IF is_game_over(board) \/ get_valid_moves(board) = << >>
           THEN LET r == worker_return(task, board,
                           <<pegs_remaining(board), top.current_move_sequence>>)
                IN  /\ futures' = [futures EXCEPT ![w] = r.task]
                    /\ boards' = [boards EXCEPT ![task.board] = r.board]
           ELSE /\ futures' = [futures EXCEPT ![w].stack[Len(task.stack)] =
                                 [top EXCEPT
                                    !.pc = "loop",
                                    !.loop_moves = get_valid_moves(board),
                                    !.i = 1,
                                    !.best = <<Inf, top.current_move_sequence>>]]
                /\ UNCHANGED boards
    /\ WorkerUnchanged

\* A worker takes the next move of its loop: snapshot, apply_move, and the
\* recursive call.
WorkerApply(w) ==
    /\ TaskAt(w, "loop")
    /\ TopFrame(futures[w]).i <= Len(TopFrame(futures[w]).loop_moves)
    /\ LET task  == futures[w]
           board == boards[task.board]
           top   == TopFrame(task)
           move  == top.loop_moves[top.i]
       IN  /\ boards' = [boards EXCEPT ![task.board] = apply_move(board, move).board]
           /\ futures' = [futures EXCEPT ![w].stack =
                            Append(SubSeq(task.stack, 1, Len(task.stack) - 1),
                                   [top EXCEPT !.pc = "call",
                                               !.original_board_state = board.state])
                              \o << EntryFrame(top.current_move_sequence \o << move >>) >>]
    /\ WorkerUnchanged

\* A worker's loop is exhausted: the frame returns its best result.
WorkerLoopEnd(w) ==
    /\ TaskAt(w, "loop")
    /\ TopFrame(futures[w]).i > Len(TopFrame(futures[w]).loop_moves)
    /\ LET task == futures[w]
           r    == worker_return(task, boards[task.board], TopFrame(task).best)
       IN  /\ futures' = [futures EXCEPT ![w] = r.task]
           /\ boards' = [boards EXCEPT ![task.board] = r.board]
    /\ WorkerUnchanged

\* A worker runs its whole task, from submit to the return of the outermost
\* _solve_worker call.
WorkerRun(w) ==
    /\ TaskAt(w, "entry")
    /\ Len(futures[w].stack) = 1
    /\ LET task == futures[w]
           r    == solve_worker(boards[task.board],
                                TopFrame(task).current_move_sequence)
       IN  /\ futures' = [futures EXCEPT ![w] =
                            [task EXCEPT !.stack = << >>, !.status = "done",
                                         !.ret = r.ret]]
           /\ boards' = [boards EXCEPT ![task.board] = r.board]
    /\ WorkerUnchanged

\* as_completed yields a finished future and solve reduces its result.
Collect(w) ==
    /\ phase = "collect"
    /\ futures[w].status = "done"
    /\ ~futures[w].taken
    /\ LET best == solve_update(<<best_pegs, best_moves>>,
                                futures[w].ret[1], futures[w].ret[2])
       IN  /\ best_pegs' = best[1]
           /\ best_moves' = best[2]
    /\ futures' = [futures EXCEPT ![w].taken = TRUE]
    /\ UNCHANGED <<boards, phase, call, moves, initial_moves, result, seq_result,
                   saved_state, cursor, entry_board>>

\* Every future has been yielded: the pool is shut down and solve returns.
SolveReturn ==
    /\ phase = "collect"
    /\ \A w \in 1..Len(futures) : futures[w].taken
    /\ result' = <<best_pegs, best_moves>>
    /\ phase' = "returned"
    /\ UNCHANGED <<boards, call, moves, initial_moves, futures, best_pegs,
                   best_moves, seq_result, saved_state, cursor, entry_board>>

\* play: pegs_left, moves = solver.solve(...); saved_state = state[:]
PlayReplayStart ==
    /\ phase = "returned"
    /\ moves' = result[2]
    /\ saved_state' = boards[GameBoard].state
    /\ cursor' = 1
    /\ phase' = "replay"
    /\ UNCHANGED <<boards, call, initial_moves, futures, best_pegs, best_moves,
                   result, seq_result, entry_board>>

\* play: one iteration of the replay loop.
PlayReplayMove ==
    /\ phase = "replay"
    /\ cursor <= Len(moves)
    /\ boards' = [boards EXCEPT ![GameBoard] = apply_move(@, moves[cursor]).board]
    /\ cursor' = cursor + 1
    /\ UNCHANGED <<phase, call, moves, initial_moves, futures, best_pegs,
                   best_moves, result, seq_result, saved_state, entry_board>>

\* play: after the replay, the verdict and self.board.state = saved_state.
PlayFinish ==
    /\ phase = "replay"
    /\ cursor > Len(moves)
    /\ boards' = [boards EXCEPT ![GameBoard].state = saved_state]
    /\ phase' = "done"
    /\ UNCHANGED <<call, moves, initial_moves, futures, best_pegs, best_moves,
                   result, seq_result, saved_state, cursor, entry_board>>

\* solver._solve_worker(self.board, [], ...) called directly on the board
\* of the game, before solve: the sequential search.
SeqSolve ==
    /\ phase = "sequential"
    /\ LET r == solve_worker(boards[GameBoard], << >>)
       IN  /\ seq_result' = r.ret
           /\ boards' = [boards EXCEPT ![GameBoard] = r.board]
    /\ phase' = "solve"
    /\ UNCHANGED <<call, moves, initial_moves, futures, best_pegs,
                   best_moves, result, saved_state, cursor, entry_board>>

MainNext ==
    \/ SolveCall
    \/ Dispatch
    \/ \E w \in 1..Len(futures) : Collect(w)
    \/ SolveReturn
    \/ PlayReplayStart
    \/ PlayReplayMove
    \/ PlayFinish

\* ----------------------------------------------------------------------
\* Spec: the game as constructed, solved with the workers interleaved step
\* by step.
Init ==
    \E n \in 1..MaxRows :
       \E e \in (-num_holes_of(n))..num_holes_of(n) : GameInit(n, e, TRUE)

Next ==
    \/ MainNext
    \/ \E w \in 1..Len(futures) : WorkerEnter(w)
    \/ \E w \in 1..Len(futures) : WorkerApply(w)
    \/ \E w \in 1..Len(futures) : WorkerLoopEnd(w)

Spec == Init /\ [][Next]_vars

\* ----------------------------------------------------------------------
\* SpecSolve: a board in any state of at most MaxPegs pegs, searched by the
\* sequential search and then by solve.  Each worker task runs in one step,
\* at any time after its submission: solve goes on submitting and reducing
\* while tasks are pending, and as_completed yields the finished futures in
\* any order.
SolveBoards ==
    UNION {{BoardWithState(n, st) : st \in BoardStates(n)} : n \in 1..SolveRows}

InitSolve ==
    /\ \E board \in SolveBoards :
          /\ pegs_remaining(board) <= MaxPegs
          /\ boards = << board >>
    /\ phase = "sequential"
    /\ call = NoCall
    /\ SolverIdle

NextSolve ==
    \/ SeqSolve
    \/ \E w \in 1..Len(futures) : WorkerRun(w)
    \/ MainNext

SpecSolve == InitSolve /\ [][NextSolve]_vars

\* ======================================================================
\* Properties of the solver (checked under SpecSolve and Spec)
\* ======================================================================

\* The boards one valid move away from a board of B.
MoveSet(board) ==
    {get_valid_moves(board)[k] : k \in 1..Len(get_valid_moves(board))}

Successors(B) ==
    UNION {{apply_move(b, m).board : m \in MoveSet(b)} : b \in B}

\* The boards reachable from the boards of frontier by valid moves, added
\* to seen.
RECURSIVE ReachFrom(_, _)
ReachFrom(frontier, seen) ==
    IF frontier = {}
    THEN seen
    ELSE ReachFrom(Successors(frontier) \ (seen \cup frontier), seen \cup frontier)

\* The peg counts of the terminal boards reachable from a board.
TerminalPegs(board) ==
    {pegs_remaining(b) : b \in {t \in ReachFrom({board}, {}) : MoveSet(t) = {}}}

Minimum(S) == CHOOSE x \in S : \A y \in S : x <= y

\* C1: the pegs_remaining value returned by solve is the minimum peg count
\* over all terminal boards reachable from the initial board by valid moves.
C1_SolveMinimal ==
    phase = "returned" => result[1] = Minimum(TerminalPegs(entry_board))

\* solve has returned the result of a search in which two workers found
\* different peg counts.
C1_Witness ==
    /\ phase = "returned"
    /\ \E v, w \in 1..Len(futures) : futures[v].ret[1] < futures[w].ret[1]
    /\ result[1] = 1

\* The moves ms[i..] applied in order to a board: the board reached, and
\* whether every apply_move returned true.
RECURSIVE ReplayFrom(_, _, _)
ReplayFrom(board, ms, i) ==
    IF i > Len(ms)
    THEN [board |-> board, ok |-> TRUE]
    ELSE IF apply_move(board, ms[i]).ret
         THEN ReplayFrom(apply_move(board, ms[i]).board, ms, i + 1)
         ELSE [board |-> board, ok |-> FALSE]

\* C2: the move sequence returned by solve, replayed on a board equal to
\* the initial one, is accepted move by move by apply_move and ends on a
\* board that has no valid move and holds the returned number of pegs.
C2_SequenceLegalTerminal ==
    phase = "returned" =>
        LET replay == ReplayFrom(entry_board, result[2], 1)
        IN  /\ replay.ok
            /\ get_valid_moves(replay.board) = << >>
            /\ pegs_remaining(replay.board) = result[1]

\* solve has returned a sequence of three moves, found by one of several
\* workers.
C2_Witness ==
    /\ phase = "returned"
    /\ Len(futures) >= 2
    /\ Len(result[2]) = 3

\* C3: from the call of solve until after its return, the board handed to
\* the Solver is in the state it had at the call, whatever the workers have
\* done so far.
C3_CallerBoardUntouched ==
    phase \in {"dispatch", "collect", "returned"}
        => boards[GameBoard] = entry_board

\* Two workers are inside recursive calls, each on a board that no longer
\* equals the caller's.
C3_Witness ==
    /\ phase = "collect"
    /\ \E v, w \in 1..Len(futures) :
          /\ v # w
          /\ Len(futures[v].stack) >= 2
          /\ Len(futures[w].stack) >= 2
          /\ boards[futures[v].board] # boards[GameBoard]
          /\ boards[futures[w].board] # boards[GameBoard]

\* C4: solve (fan-out over the first moves, then reduce) and the sequential
\* search (_solve_worker on the initial board with an empty sequence)
\* report the same pegs_remaining for the same initial board.
C4_ParallelEqualsSequential ==
    phase = "returned" => result[1] = seq_result[1]

\* Both searches have returned, with the same peg count and different move
\* sequences.
C4_Witness ==
    /\ phase = "returned"
    /\ Len(futures) >= 2
    /\ result[1] = seq_result[1]
    /\ result[2] # seq_result[2]

\* C9: solve on a board that has no valid move returns the board's own peg
\* count with the empty sequence, having submitted no task, created no
\* board and left the board as it was; with one peg on the board the
\* result is (1, []).
C9_NoMovesReturnsAtOnce ==
    (phase = "returned" /\ get_valid_moves(entry_board) = << >>) =>
        /\ result = <<pegs_remaining(entry_board), << >> >>
        /\ futures = << >>
        /\ Len(boards) = 1
        /\ boards[GameBoard] = entry_board
        /\ pegs_remaining(entry_board) = 1 => result = <<1, << >> >>

\* solve has returned (1, []) for a board of one peg.
C9_Witness ==
    /\ phase = "returned"
    /\ pegs_remaining(entry_board) = 1
    /\ get_valid_moves(entry_board) = << >>
    /\ result = <<1, << >> >>

\* ======================================================================
\* Properties of the Board API (checked under SpecBoard)
\* ======================================================================

\* The holes of a board as the triangle of (row, col) pairs, and the
\* row-major numbering of the triangle.
Triangle(board) ==
    {rc \in (0..(board.num_rows - 1)) \X (0..(board.num_rows - 1)) : rc[2] <= rc[1]}

HoleNumber(rc) == (rc[1] * (rc[1] + 1)) \div 2 + rc[2]

CoordOf(board, i) == CHOOSE rc \in Triangle(board) : HoleNumber(rc) = i

InRange(board, i) == 0 <= i /\ i < board.num_holes

\* A move triple that is invalid on a board: an index out of range, start
\* or jumped hole empty, or destination occupied.
InvalidOn(board, m) ==
    \/ ~InRange(board, m.start)
    \/ ~InRange(board, m.jumped)
    \/ ~InRange(board, m.destination)
    \/ /\ InRange(board, m.start)
       /\ InRange(board, m.jumped)
       /\ InRange(board, m.destination)
       /\ \/ ~board.state[m.start]
          \/ ~board.state[m.jumped]
          \/ board.state[m.destination]

ApplyCall == call.op \in {"apply_move", "apply_inverse"}

\* C5: apply_move of a move triple that is invalid on the board (an index
\* out of range, start or jumped hole empty, or destination occupied)
\* returns false and leaves the board state unchanged.
C5_InvalidMoveRejected ==
    (ApplyCall /\ InvalidOn(call.before, call.arg))
        => (call.ret = FALSE /\ boards[GameBoard] = call.before)

\* An apply_move call rejected only because its destination is occupied.
C5_Witness ==
    /\ call.op = "apply_move"
    /\ InRange(call.before, call.arg.start)
    /\ InRange(call.before, call.arg.jumped)
    /\ InRange(call.before, call.arg.destination)
    /\ call.before.state[call.arg.start]
    /\ call.before.state[call.arg.jumped]
    /\ call.before.state[call.arg.destination]
    /\ call.arg.start # call.arg.jumped
    /\ call.arg.jumped # call.arg.destination
    /\ call.ret = FALSE

\* C6 as stated: after a valid move m has been applied and then the inverse
\* move (destination, jumped, start), the board is back in the state it
\* had before m.
C6_RoundTripRestores ==
    phase = "inverted" => boards[GameBoard] = call.first.before

\* C6 as amended: after a valid move m has been applied, apply_move of the
\* inverse move (destination, jumped, start) returns false and leaves the
\* board in the state m produced (start and jumped empty, destination
\* occupied), which is not the state before m.
C6_InverseRejected ==
    phase = "inverted" =>
        LET m      == call.first.arg
            before == call.first.before
        IN  /\ call.ret = FALSE
            /\ boards[GameBoard] = call.before
            /\ boards[GameBoard].state =
                 [i \in DOMAIN before.state |->
                    IF i = m.destination THEN TRUE
                    ELSE IF i \in {m.start, m.jumped} THEN FALSE
                    ELSE before.state[i]]
            /\ boards[GameBoard] # before

\* A geometric jump was applied and then its inverse.
C6_Witness ==
    /\ phase = "inverted"
    /\ call.first.ret = TRUE
    /\ \E k \in 1..Len(get_valid_moves(call.first.before)) :
          get_valid_moves(call.first.before)[k] = call.first.arg

\* The six jump directions, in the order C7 lists them.
JumpDirections ==
    << <<-2, -2>>, <<-2, 0>>, <<0, -2>>, <<0, 2>>, <<2, 0>>, <<2, 2>> >>

Midpoint(rc, dir) == <<rc[1] + dir[1] \div 2, rc[2] + dir[2] \div 2>>

Landing(rc, dir) == <<rc[1] + dir[1], rc[2] + dir[2]>>

\* The (start, direction number) pairs of the jumps C7 describes.
ExpectedJumps(board) ==
    {e \in (0..(board.num_holes - 1)) \X (1..Len(JumpDirections)) :
        /\ board.state[e[1]]
        /\ Midpoint(CoordOf(board, e[1]), JumpDirections[e[2]]) \in Triangle(board)
        /\ Landing(CoordOf(board, e[1]), JumpDirections[e[2]]) \in Triangle(board)
        /\ board.state[HoleNumber(Midpoint(CoordOf(board, e[1]), JumpDirections[e[2]]))]
        /\ ~board.state[HoleNumber(Landing(CoordOf(board, e[1]), JumpDirections[e[2]]))]}

ExpectedMove(board, e) ==
    Move(e[1],
         HoleNumber(Midpoint(CoordOf(board, e[1]), JumpDirections[e[2]])),
         HoleNumber(Landing(CoordOf(board, e[1]), JumpDirections[e[2]])))

\* The position of a jump when the jumps are listed by ascending start and,
\* for equal start, by direction number.
JumpRank(E, e) ==
    1 + Cardinality({f \in E : f[1] < e[1] \/ (f[1] = e[1] /\ f[2] < e[2])})

\* C7: get_valid_moves returns exactly the jumps (start, midpoint,
\* destination) with start occupied, direction one of the six, midpoint
\* existing and occupied, destination existing and empty; each once, in
\* ascending order of start and then in direction-list order; and a second
\* call on the same state returns the same sequence.
C7_ValidMovesExact ==
    call.op = "get_valid_moves" =>
        LET E == ExpectedJumps(call.before)
        IN  /\ Len(call.ret) = Cardinality(E)
            /\ \A e \in E : call.ret[JumpRank(E, e)] = ExpectedMove(call.before, e)
            /\ get_valid_moves(boards[GameBoard]) = call.ret

\* get_valid_moves returned two jumps of the same start hole.
C7_Witness ==
    /\ call.op = "get_valid_moves"
    /\ \E k \in 1..(Len(call.ret) - 1) : call.ret[k].start = call.ret[k + 1].start

\* C8: num_holes = num_rows*(num_rows+1)/2, which is the number of (row,
\* col) pairs of the triangle and the length of the state list; get_row_col
\* maps every index in range to a pair of the triangle that get_index maps
\* back to it, and get_index maps every pair of the triangle to an index in
\* range that get_row_col maps back to it; get_row_col returns None outside
\* the range and get_index returns -1 outside the triangle.
C8_IndexBijection ==
    LET board == boards[GameBoard]
    IN  /\ 2 * board.num_holes = board.num_rows * (board.num_rows + 1)
        /\ board.num_holes = Cardinality(Triangle(board))
        /\ DOMAIN board.state = 0..(board.num_holes - 1)
        /\ call.op = "get_row_col" =>
             IF call.arg \in 0..(board.num_holes - 1)
             THEN /\ call.ret \in Triangle(board)
                  /\ get_index(board, call.ret[1], call.ret[2]) = call.arg
             ELSE call.ret = None
        /\ call.op = "get_index" =>
             IF call.arg \in Triangle(board)
             THEN /\ call.ret \in 0..(board.num_holes - 1)
                  /\ get_row_col(board, call.ret) = call.arg
             ELSE call.ret = -1

\* get_index was called on the last hole of the last row of a board of at
\* least three rows.
C8_Witness ==
    /\ call.op = "get_index"
    /\ boards[GameBoard].num_rows >= 3
    /\ call.arg = <<boards[GameBoard].num_rows - 1, boards[GameBoard].num_rows - 1>>
    /\ call.ret = boards[GameBoard].num_holes - 1

\* ======================================================================
\* Properties of the default game (checked under SpecGame)
\* ======================================================================

\* The first turn of the default game: the moves are listed and no peg has
\* been removed yet (every hole but the empty one is occupied).
AtDefaultStart ==
    /\ phase = "choose"
    /\ boards[GameBoard].num_rows = DefaultRows
    /\ \A i \in DOMAIN boards[GameBoard].state :
          boards[GameBoard].state[i] <=> (i # DefaultEmptyHole)

\* C10 as stated: the board built with num_rows=5, empty_hole=0 has 14 pegs
\* and 14 holes, and get_valid_moves on it returns exactly two moves, from
\* hole 3 and then from hole 5, both landing in hole 0.
C10_FourteenHoles ==
    AtDefaultStart =>
        /\ pegs_remaining(boards[GameBoard]) = 14
        /\ boards[GameBoard].num_holes = 14
        /\ moves = << Move(3, 1, 0), Move(5, 2, 0) >>

\* C10 as amended: the board built with num_rows=5, empty_hole=0 has 14
\* pegs and 15 holes (one of them empty), and get_valid_moves on it returns
\* exactly two moves, from hole 3 and then from hole 5, both landing in
\* hole 0.
C10_DefaultStart ==
    AtDefaultStart =>
        /\ pegs_remaining(boards[GameBoard]) = 14
        /\ boards[GameBoard].num_holes = 15
        /\ StateLen(boards[GameBoard].state) = 15
        /\ moves = << Move(3, 1, 0), Move(5, 2, 0) >>

\* The default game has listed the moves of its first turn.
C10_Witness == AtDefaultStart /\ Len(moves) = 2

\* ======================================================================
\* SpecJoin: solve on a board of at most SolveRows rows in any state of at
\* most JoinPegs pegs, the pool free to run a submitted task (in one step)
\* at any time, also while solve is still submitting or already reducing.
\* ======================================================================
InitJoin ==
    /\ \E board \in SolveBoards :
          /\ pegs_remaining(board) <= JoinPegs
          /\ boards = << board >>
    /\ phase = "solve"
    /\ call = NoCall
    /\ SolverIdle

NextJoin ==
    \/ \E w \in 1..Len(futures) : WorkerRun(w)
    \/ MainNext

SpecJoin == InitJoin /\ [][NextJoin]_vars

\* ======================================================================
\* SpecFail: the game as constructed, solved with the workers interleaved
\* step by step, where a worker may raise an unexpected exception at any
\* point of its search.
\* ======================================================================

\* An exception raised inside _solve_worker: no frame catches it and no
\* frame runs `board.state = original_board_state` on the way out, so it
\* ends the task with the board as it is; the future holds the exception.
WorkerFail(w) ==
    /\ futures[w].status = "pending"
    /\ futures' = [futures EXCEPT ![w].stack = << >>, ![w].status = "failed"]
    /\ UNCHANGED boards
    /\ WorkerUnchanged

\* as_completed yields a future whose result() raises: the except branch
\* prints the exception and the best result stays as it is.
CollectFailed(w) ==
    /\ phase = "collect"
    /\ futures[w].status = "failed"
    /\ ~futures[w].taken
    /\ futures' = [futures EXCEPT ![w].taken = TRUE]
    /\ UNCHANGED <<boards, phase, call, moves, initial_moves, best_pegs,
                   best_moves, result, seq_result, saved_state, cursor,
                   entry_board>>

NextFail ==
    \/ Next
    \/ \E w \in 1..Len(futures) : WorkerFail(w)
    \/ \E w \in 1..Len(futures) : CollectFailed(w)

SpecFail == Init /\ [][NextFail]_vars

\* ======================================================================
\* SpecFair: solve on a board of at most SolveRows rows in any state of at
\* most JoinPegs pegs, the workers interleaved step by step, under fair
\* scheduling: the main thread and the worker threads of the pool keep
\* running while they can.
\* ======================================================================
SolveStep ==
    \/ SolveCall
    \/ Dispatch
    \/ \E w \in 1..Len(futures) : Collect(w)
    \/ SolveReturn

WorkerStep ==
    \/ \E w \in 1..Len(futures) : WorkerEnter(w)
    \/ \E w \in 1..Len(futures) : WorkerApply(w)
    \/ \E w \in 1..Len(futures) : WorkerLoopEnd(w)

NextFair == SolveStep \/ WorkerStep

SpecFair ==
    InitJoin /\ [][NextFair]_vars /\ WF_vars(SolveStep) /\ WF_vars(WorkerStep)

\* ======================================================================
\* SpecWorker: one _solve_worker call with an empty sequence on a board in
\* any state of at most MaxPegs pegs (the sequential search), executed
\* step by step as the only task, on the caller's board itself.
\* ======================================================================

\* self._solve_worker(board, [], display, delay)
DirectCall ==
    [board  |-> GameBoard,
     stack  |-> << EntryFrame(<< >>) >>,
     status |-> "pending",
     ret    |-> None,
     taken  |-> FALSE]

InitWorker ==
    /\ \E board \in SolveBoards :
          /\ pegs_remaining(board) <= MaxPegs
          /\ boards = << board >>
          /\ entry_board = board
    /\ phase = "worker"
    /\ call = NoCall
    /\ futures = << DirectCall >>
    /\ moves = << >>
    /\ initial_moves = << >>
    /\ best_pegs = Inf
    /\ best_moves = << >>
    /\ result = None
    /\ seq_result = None
    /\ saved_state = None
    /\ cursor = 0

NextWorker ==
    \/ \E w \in 1..Len(futures) : WorkerEnter(w)
    \/ \E w \in 1..Len(futures) : WorkerApply(w)
    \/ \E w \in 1..Len(futures) : WorkerLoopEnd(w)

SpecWorker == InitWorker /\ [][NextWorker]_vars

\* ======================================================================
\* Properties of the backtracking search, frame by frame
\* ======================================================================

Frames(w) == 1..Len(futures[w].stack)

\* The state of the board a task was handed: the caller's board for the
\* direct call, the caller's board after the first-ply move for a task
\* submitted by solve.
HandedState(w) ==
    IF phase = "worker"
    THEN entry_board.state
    ELSE apply_move(entry_board, initial_moves[w]).board.state

\* The state of the board on entry to the k-th frame of task w: for a
\* nested frame, the caller's snapshot with the caller's current move made.
FrameEntryState(w, k) ==
    IF k = 1
    THEN HandedState(w)
    ELSE LET caller == futures[w].stack[k - 1]
         IN  apply_move(BoardWithState(entry_board.num_rows,
                                       caller.original_board_state),
                        caller.loop_moves[caller.i]).board.state

\* C11 as stated: once a recursive call has returned a 1-peg result to a
\* frame of a search, no further move is applied in that search, i.e. no
\* frame is inside the recursive call of a move it applied while its best
\* result was already 1 peg.
C11_EarlyExit ==
    \A w \in 1..Len(futures) :
       \A k \in Frames(w) :
          LET frame == futures[w].stack[k]
          IN  frame.pc = "call" => frame.best[1] # 1

\* C12: in every frame of _solve_worker the snapshot taken when a sibling
\* move is applied is the board state at entry to the frame, the board is
\* back in that state whenever the frame is at the head of its loop (before
\* the next sibling and before its return), and a finished task leaves the
\* board in the state it was handed.
C12_SnapshotRestore ==
    \A w \in 1..Len(futures) :
       LET task == futures[w]
       IN  /\ \A k \in Frames(w) :
                /\ task.stack[k].pc = "call" =>
                      task.stack[k].original_board_state = FrameEntryState(w, k)
                /\ (k = Len(task.stack) /\ task.stack[k].pc = "loop") =>
                      boards[task.board].state = FrameEntryState(w, k)
           /\ task.status = "done" =>
                 boards[task.board].state = HandedState(w)

\* A nested frame has tried a sibling, got the board back and is about to
\* apply its second move.
C12_Witness ==
    \E w \in 1..Len(futures) :
       /\ Len(futures[w].stack) >= 2
       /\ TopFrame(futures[w]).pc = "loop"
       /\ TopFrame(futures[w]).i = 2
       /\ Len(TopFrame(futures[w]).loop_moves) >= 2
       /\ boards[futures[w].board].state # HandedState(w)

\* ======================================================================
\* Properties of the fan-out (checked under Spec)
\* ======================================================================

Dispatched == phase \in {"collect", "returned", "replay", "done"}

\* One task per first-ply move, each on a board object of its own, handed
\* over in the initial state with that move made and with the sequence
\* holding that move alone.
OneTaskPerMove ==
    /\ Dispatched => Len(futures) = Len(get_valid_moves(entry_board))
    /\ \A w \in 1..Len(futures) :
          /\ futures[w].board # GameBoard
          /\ \A v \in 1..Len(futures) :
                v # w => futures[v].board # futures[w].board
          /\ (futures[w].status = "pending" /\ Len(futures[w].stack) = 1
                /\ TopFrame(futures[w]).pc = "entry") =>
                LET move == get_valid_moves(entry_board)[w]
                IN  /\ boards[futures[w].board].state =
                          apply_move(entry_board, move).board.state
                    /\ TopFrame(futures[w]).current_move_sequence = << move >>

\* A step that changes the state of a worker's board is a step of the one
\* task that owns the board, and it changes no other board and no other
\* task.
OwnerWritesOnly ==
    \A b \in 1..Len(boards) :
       (b # GameBoard /\ boards'[b] # boards[b]) =>
          \E w \in 1..Len(futures) :
             /\ futures[w].board = b
             /\ futures'[w] # futures[w]
             /\ \A v \in 1..Len(futures) : v # w => futures'[v] = futures[v]
             /\ \A c \in 1..Len(boards) : c # b => boards'[c] = boards[c]

\* C13: when the initial board has k >= 1 valid moves, solve dispatches
\* exactly k workers, one per first-ply move; worker i receives its own
\* board in the initial state with move i applied and the sequence
\* [move i]; in every interleaving each worker board is written only by the
\* worker that owns it, and a worker's write changes no other board.
C13_WorkerIsolation == []OneTaskPerMove /\ [][OwnerWritesOnly]_vars

\* Two workers are inside their searches at once, each having moved on its
\* own board.
C13_Witness ==
    \E v, w \in 1..Len(futures) :
       /\ v # w
       /\ futures[v].status = "pending" /\ Len(futures[v].stack) >= 2
       /\ futures[w].status = "pending" /\ Len(futures[w].stack) >= 2
       /\ boards[futures[v].board] # boards[futures[w].board]

\* ======================================================================
\* Properties of the reduction (checked under SpecJoin)
\* ======================================================================

WorkerPegs == { futures[w].ret[1] : w \in 1..Len(futures) }

\* C14: solve returns only after every dispatched worker has completed and,
\* whatever the order of completion, returns the minimum of the workers'
\* peg counts with a sequence no longer than that of any worker that
\* returned the same peg count.
C14_ReduceOverAll ==
    (phase = "returned" /\ futures # << >>) =>
        /\ \A w \in 1..Len(futures) :
              futures[w].status = "done" /\ futures[w].taken
        /\ result[1] = Minimum(WorkerPegs)
        /\ \A w \in 1..Len(futures) :
              futures[w].ret[1] = result[1] =>
                 Len(futures[w].ret[2]) >= Len(result[2])

\* solve has returned the result of the worker submitted last, which beat
\* the result of a worker submitted before it.
C14_Witness ==
    /\ phase = "returned"
    /\ Len(futures) >= 2
    /\ result = futures[Len(futures)].ret
    /\ \E w \in 1..Len(futures) : futures[w].ret[1] > result[1]

\* The reduction of the workers' results taken in the order of submission,
\* from worker w on.
RECURSIVE ReduceInOrder(_, _)
ReduceInOrder(w, best) ==
    IF w > Len(futures)
    THEN best
    ELSE ReduceInOrder(w + 1, solve_update(best, futures[w].ret[1],
                                           futures[w].ret[2]))

\* C15 as stated: for a fixed initial board solve returns the same move
\* sequence whatever the order in which the workers complete; the sequence
\* returned is then the one the reduction yields when the workers complete
\* in the order of submission.
C15_SameSequenceEveryRun ==
    (phase = "returned" /\ futures # << >>) =>
        result[2] = ReduceInOrder(1, <<Inf, << >> >>)[2]

\* ======================================================================
\* Properties of the results (checked under SpecSolve)
\* ======================================================================

\* The terminal states of the search tree below a board, in depth-first
\* order with the siblings in get_valid_moves order, each as the pair
\* <<pegs_remaining, sequence of moves leading to it>>.
RECURSIVE DfsTerminals(_, _)
RECURSIVE DfsSiblings(_, _, _, _)
DfsSiblings(board, seq, ms, i) ==
    IF i > Len(ms)
    THEN << >>
    ELSE DfsTerminals(apply_move(board, ms[i]).board, seq \o << ms[i] >>)
           \o DfsSiblings(board, seq, ms, i + 1)

DfsTerminals(board, seq) ==
    IF get_valid_moves(board) = << >>
    THEN << <<pegs_remaining(board), seq>> >>
    ELSE DfsSiblings(board, seq, get_valid_moves(board), 1)

\* The first pair of a list of terminal states that has the least peg count.
FirstMinimal(ts) ==
    LET least == Minimum({ ts[j][1] : j \in 1..Len(ts) })
        first == Minimum({ j \in 1..Len(ts) : ts[j][1] = least })
    IN  ts[first]

\* C17: the result of one _solve_worker search is the terminal state of its
\* subtree that attains the minimum peg count and is reached first in
\* depth-first order; a later terminal state with the same peg count never
\* replaces it.  Stated of the direct call when it has returned and of every
\* worker task when solve has returned.
C17_FirstFoundWins ==
    /\ phase = "solve" =>
          seq_result = FirstMinimal(DfsTerminals(boards[GameBoard], << >>))
    /\ phase = "returned" =>
          \A w \in 1..Len(futures) :
             futures[w].status = "done" =>
                futures[w].ret =
                   FirstMinimal(DfsTerminals(boards[futures[w].board],
                                             << initial_moves[w] >>))

\* The direct search has returned on a board whose tree has the minimum
\* peg count at two terminal states or more, the last of them reached by a
\* sequence other than the returned one.
C17_Witness ==
    /\ phase = "solve"
    /\ LET ts == DfsTerminals(boards[GameBoard], << >>)
       IN  /\ Len(ts) >= 2
           /\ ts[Len(ts)][1] = seq_result[1]
           /\ ts[Len(ts)][2] # seq_result[2]

\* The peg count of the board the search started from.
InitialPegs ==
    IF entry_board = None
    THEN pegs_remaining(boards[GameBoard])
    ELSE pegs_remaining(entry_board)

Conserves(r) == r[1] + Len(r[2]) = InitialPegs

\* C19: every move get_valid_moves produces (on any board the search may
\* start from) is accepted by apply_move on the same state and lowers the
\* peg count by exactly one; every result of _solve_worker and of solve
\* satisfies pegs + length(sequence) = peg count of the initial board; and
\* a result that ties with the best one in the reduction is never shorter,
\* so the tie-break branch replaces nothing.
C19_PegConservation ==
    /\ phase = "sequential" =>
          \A j \in 1..Len(get_valid_moves(boards[GameBoard])) :
             LET applied == apply_move(boards[GameBoard],
                                       get_valid_moves(boards[GameBoard])[j])
             IN  /\ applied.ret
                 /\ pegs_remaining(applied.board) =
                       pegs_remaining(boards[GameBoard]) - 1
    /\ seq_result # None => Conserves(seq_result)
    /\ result # None => Conserves(result)
    /\ \A w \in 1..Len(futures) :
          futures[w].status = "done" =>
             /\ Conserves(futures[w].ret)
             /\ (~futures[w].taken /\ futures[w].ret[1] = best_pegs) =>
                   Len(futures[w].ret[2]) = Len(best_moves)

\* The reduction is about to take a result that ties with the best so far
\* and has another sequence.
C19_Witness ==
    /\ phase = "collect"
    /\ \E w \in 1..Len(futures) :
          /\ futures[w].status = "done"
          /\ ~futures[w].taken
          /\ futures[w].ret[1] = best_pegs
          /\ futures[w].ret[2] # best_moves

\* ======================================================================
\* Properties of a search with failing workers (checked under SpecFail)
\* ======================================================================

Survivors == { w \in 1..Len(futures) : futures[w].status = "done" }

\* C16 as stated: when workers fail, the others still complete, solve still
\* returns, and the result is the reduction over the workers that did not
\* fail, a pair whose peg count is a non-negative integer (a peg count of
\* the board; Inf, the float infinity of the code, is none).
C16_FailureNonFatal ==
    (phase = "returned" /\ futures # << >>) =>
        /\ \A w \in 1..Len(futures) :
              futures[w].status \in {"done", "failed"} /\ futures[w].taken
        /\ Survivors # {} =>
              /\ result[1] = Minimum({ futures[w].ret[1] : w \in Survivors })
              /\ \E w \in Survivors : result = futures[w].ret
        /\ result[1] \in 0..pegs_remaining(entry_board)

\* C18 as stated: when a recursive call ends in a failure, every frame the
\* failure leaves has put its pre-move snapshot back, so the failed task
\* leaves its board in the state it was handed.
C18_RestoreOnFailure ==
    \A w \in 1..Len(futures) :
       futures[w].status = "failed" =>
          boards[futures[w].board].state = HandedState(w)

\* ======================================================================
\* Termination (checked under SpecFair)
\* ======================================================================

\* The number of _solve_worker frames on a worker's stack never exceeds
\* the initial peg count minus one.
DepthBounded ==
    \A w \in 1..Len(futures) :
       Len(futures[w].stack) <= pegs_remaining(entry_board) - 1

AllReturned ==
    /\ phase = "returned"
    /\ \A w \in 1..Len(futures) : futures[w].status = "done"

\* C20: under fair scheduling every dispatched worker eventually completes
\* and solve eventually returns, and the recursion depth of a worker never
\* exceeds the initial peg count minus one.
C20_Terminates == []DepthBounded /\ <>AllReturned

\* A worker is as deep as the bound allows: initial peg count minus one
\* frames, the innermost on a board with a single peg.
C20_Witness ==
    \E w \in 1..Len(futures) :
       /\ Len(futures[w].stack) >= 2
       /\ Len(futures[w].stack) = pegs_remaining(entry_board) - 1
       /\ pegs_remaining(boards[futures[w].board]) = 1

====
